---- MODULE Spec2Model ----
(***************************************************************************)
(* A model of the RAG notebook src/RagSystem.ipynb: DeepSeekRunnable,      *)
(* safe_load_documents, initialize_rag (the final definition, lines        *)
(* 363-410) and ask (lines 450-455).                                       *)
(*                                                                         *)
(* Text is modelled as a sequence of one-character strings, so that        *)
(* prefixes, suffixes, lengths, splitting and concatenation are computed   *)
(* and not assumed.                                                        *)
(*                                                                         *)
(* The notebook defines initialize_rag and ask twice, the second time with *)
(* the stricter template; the model follows the final definitions.         *)
(* exit(1) is taken as Python's exit: it raises SystemExit, which no       *)
(* "except Exception" catches, and the process ends.                       *)
(***************************************************************************)
EXTENDS Integers, Sequences, FiniteSets, TLC

VARIABLES
    pc,          \* position of the pipeline: Idle, Loading, ..., Ready, Failed
    phases,      \* the positions passed so far, in order
    directory,   \* argument of safe_load_documents
    tree,        \* the files present on disk, as paths relative to directory
    lpc,         \* position inside safe_load_documents
    txt_files,   \* safe_load_documents: the candidate paths
    todo,        \* safe_load_documents: candidates the loop has not reached yet
    documents,   \* safe_load_documents: documents loaded so far
    errors,      \* safe_load_documents: (file, error) pairs recorded so far
    reported,    \* the "Success: n docs | Failed: m" line, once printed
    chunks,      \* initialize_rag: the chunks of the loaded documents
    embeddings,  \* FAISS.from_documents: the vectors of the chunks
    vector_db,   \* the FAISS index: whether built, and its (chunk, vector) entries
    rag_chain,   \* the global rag_chain: None until initialize_rag returns
    launched,    \* whether the Gradio interface with fn=ask is running
    q,           \* per concurrent caller: the ask call in progress
    call         \* a direct DeepSeekRunnable.invoke call: input, outcome, result

loadVars == <<directory, tree, lpc, txt_files, todo, documents, errors, reported>>
buildVars == <<chunks, embeddings, vector_db, rag_chain, launched>>
queryVars == <<q, call>>
vars == <<pc, phases, loadVars, buildVars, queryVars>>

None == "None"

(***************************************************************************)
(* Text helpers (Python str operations).                                   *)
(***************************************************************************)
startswith(s, p) == Len(s) >= Len(p) /\ SubSeq(s, 1, Len(p)) = p

endswith(s, p) == Len(s) >= Len(p) /\ SubSeq(s, Len(s) - Len(p) + 1, Len(s)) = p

\* text.split(sep) for a one-character sep: the pieces between occurrences.
RECURSIVE SplitOn(_, _)
SplitOn(s, sep) ==
    IF \A i \in 1..Len(s) : s[i] # sep THEN <<s>>
    ELSE LET i == CHOOSE j \in 1..Len(s) :
                      s[j] = sep /\ \A h \in 1..(j - 1) : s[h] # sep
         IN  <<SubSeq(s, 1, i - 1)>> \o SplitOn(SubSeq(s, i + 1, Len(s)), sep)

SelectNonDot(parts) == SelectSeq(parts, LAMBDA p : p # <<>> /\ p # <<".">>)

\* Path(directory).parts for a relative directory: pathlib drops empty and "."
\* components and keeps "..".
PathParts(dir) == SelectNonDot(SplitOn(dir, "/"))

(***************************************************************************)
(* The corpus on disk.                                                     *)
(***************************************************************************)
dot_txt == <<".", "t", "x", "t">>
n_data == <<"d", "a", "t", "a">>
n_a_txt == <<"a">> \o dot_txt
n_hidden_txt == <<".", "b">> \o dot_txt
n_sub == <<"s">>
n_c_txt == <<"c">> \o dot_txt
n_git == <<".", "g">>
n_e_md == <<"e", ".", "m", "d">>
n_txtdir == <<"d">> \o dot_txt
n_f_txt == <<"f">> \o dot_txt

\* Every file the model may place under the directory (relative paths).
AllPaths ==
    { <<n_a_txt>>, <<n_hidden_txt>>, <<n_sub, n_c_txt>>, <<n_git, n_c_txt>>,
      <<n_sub, n_e_md>>, <<n_txtdir, n_f_txt>>, <<n_sub, n_git, n_a_txt>> }

\* "./data" is what initialize_rag passes; the others are further arguments.
dir_data == <<".", "/">> \o n_data
dir_up_data == <<".", ".", "/">> \o n_data
dir_data_sub == n_data \o <<"/">> \o n_sub
Directories == {dir_data, dir_up_data, dir_data_sub}

\* The entries of the tree: every file and every directory above a file.
Entries(t) == UNION {{SubSeq(p, 1, n) : n \in 1..Len(p)} : p \in t}

IsDir(t, e) == \E p \in t : Len(p) > Len(e) /\ SubSeq(p, 1, Len(e)) = e

\* fnmatch of a name against "*.txt"
MatchesTxt(name) == endswith(name, dot_txt)

\* Path(directory).rglob("*.txt"): every entry below directory, at any depth,
\* whose name matches; each as the full path directory/relative.
rglob_txt(dir, t) ==
    {PathParts(dir) \o e : e \in {x \in Entries(t) : MatchesTxt(x[Len(x)])}}

\* Mutant of AnyPartHidden: only the file's own name is looked at.
AnyPartHidden_NameOnly(parts) == startswith(parts[Len(parts)], <<".">>)

\* any(part.startswith(".") for part in f.parts)
AnyPartHidden(parts) == \E i \in 1..Len(parts) : startswith(parts[i], <<".">>)

FullPath(e) == PathParts(directory) \o e

(***************************************************************************)
(* The state before anything is built or asked.                            *)
(***************************************************************************)
Clients == {1, 2}

IdleClient ==
    [qpc |-> "idle", question |-> <<>>, docs |-> <<>>, prompt |-> <<>>,
     sent |-> None, result |-> None, answer |-> None, failed |-> "none"]

\* No FAISS index exists yet.
NoIndex == [built |-> FALSE, entries |-> <<>>]

NothingBuilt ==
    /\ chunks = <<>>
    /\ embeddings = <<>>
    /\ vector_db = NoIndex
    /\ rag_chain = None
    /\ launched = FALSE

NoCall == [kind |-> "none"]

NoQueries ==
    /\ q = [c \in Clients |-> IdleClient]
    /\ call = NoCall

(***************************************************************************)
(* safe_load_documents                                                     *)
(***************************************************************************)
Contents == { <<>>, <<"a", "b">>, <<"a", " ", "b", "b", " ", "a", "a", "b">> }

\* txt_files = [f for f in rglob if not any hidden part]
ListFiles ==
    /\ pc = "Loading" /\ lpc = "list"
    /\ txt_files' = {f \in rglob_txt(directory, tree) : ~AnyPartHidden(f)}
    /\ todo' = txt_files'
    /\ lpc' = "loop"
    /\ UNCHANGED <<pc, phases, directory, tree, documents, errors, reported, buildVars, queryVars>>

\* Mutant of LoadFile: a failing file ends the loop (break instead of continue).
LoadFile_Break ==
    /\ pc = "Loading" /\ lpc = "loop"
    /\ \E f \in todo :
         \/ /\ ~IsDir(tree, SubSeq(f, Len(PathParts(directory)) + 1, Len(f)))
            /\ \E text \in Contents :
                 documents' = Append(documents, [source |-> f, page_content |-> text])
            /\ todo' = todo \ {f}
            /\ UNCHANGED errors
         \/ /\ errors' = Append(errors, <<f, "Error loading">>)
            /\ todo' = {}
            /\ UNCHANGED documents
    /\ UNCHANGED <<pc, phases, directory, tree, lpc, txt_files, reported, buildVars, queryVars>>

\* One iteration of "for file in txt_files": TextLoader(...).load() yields one
\* Document, or raises and the file is recorded in errors.
LoadFile ==
    /\ pc = "Loading" /\ lpc = "loop"
    /\ \E f \in todo :
         /\ todo' = todo \ {f}
         /\ \/ /\ ~IsDir(tree, SubSeq(f, Len(PathParts(directory)) + 1, Len(f)))
               /\ \E text \in Contents :
                    documents' = Append(documents, [source |-> f, page_content |-> text])
               /\ UNCHANGED errors
            \/ /\ errors' = Append(errors, <<f, "Error loading">>)
               /\ UNCHANGED documents
    /\ UNCHANGED <<pc, phases, directory, tree, lpc, txt_files, reported, buildVars, queryVars>>

\* The loop is over: print the counts and return documents to initialize_rag,
\* which goes on to split them.
Report ==
    /\ pc = "Loading" /\ lpc = "loop" /\ todo = {}
    /\ reported' = [success |-> Len(documents), failed |-> Len(errors)]
    /\ lpc' = "done"
    /\ pc' = "Chunking"
    /\ phases' = Append(phases, "Chunking")
    /\ UNCHANGED <<directory, tree, txt_files, todo, documents, errors, buildVars, queryVars>>

InitLoad ==
    /\ pc = "Loading"
    /\ phases = <<"Idle", "Loading">>
    /\ directory \in Directories
    /\ tree \in SUBSET AllPaths
    /\ lpc = "list"
    /\ txt_files = {}
    /\ todo = {}
    /\ documents = <<>>
    /\ errors = <<>>
    /\ reported = None
    /\ NothingBuilt
    /\ NoQueries

NextLoad == ListFiles \/ LoadFile \/ Report

SpecLoad == InitLoad /\ [][NextLoad]_vars

(***************************************************************************)
(* RecursiveCharacterTextSplitter(chunk_size, chunk_overlap), as called by *)
(* initialize_rag with the library's defaults: separators "\n\n", "\n",    *)
(* " ", "" (tried in that order), keep_separator = True, strip_whitespace  *)
(* = True, length_function = len.  The source sets chunk_size = 500 and    *)
(* chunk_overlap = 50; the model runs the same algorithm with both scaled  *)
(* down so that short documents cross the limits.                          *)
(***************************************************************************)
chunk_size == 4
chunk_overlap == 1

NL == "\n"
separators == << <<NL, NL>>, <<NL>>, <<" ">>, <<>> >>

\* Mutant of default_separators: no character-level last resort.
separators_NoCharLevel == << <<NL, NL>>, <<NL>>, <<" ">> >>

default_separators == separators

Occurs(text, sep) ==
    \E i \in 1..(Len(text) - Len(sep) + 1) : SubSeq(text, i, i + Len(sep) - 1) = sep

FirstOccurrence(text, sep) ==
    CHOOSE i \in 1..(Len(text) - Len(sep) + 1) :
        /\ SubSeq(text, i, i + Len(sep) - 1) = sep
        /\ \A h \in 1..(i - 1) : SubSeq(text, h, h + Len(sep) - 1) # sep

\* The texts between the leftmost non-overlapping occurrences of sep.
RECURSIVE Between(_, _)
Between(text, sep) ==
    IF ~Occurs(text, sep) THEN <<text>>
    ELSE LET i == FirstOccurrence(text, sep)
         IN  <<SubSeq(text, 1, i - 1)>>
                 \o Between(SubSeq(text, i + Len(sep), Len(text)), sep)

\* _split_text_with_regex(text, separator, keep_separator = True): each
\* separator stays at the start of the piece that follows it; empty pieces
\* are dropped.  With the separator "" the text is split into characters.
split_text_with_regex(text, sep) ==
    LET pieces == Between(text, sep)
        kept == IF sep = <<>>
                THEN [i \in 1..Len(text) |-> <<text[i]>>]
                ELSE [i \in 1..Len(pieces) |->
                         IF i = 1 THEN pieces[1] ELSE sep \o pieces[i]]
    IN  SelectSeq(kept, LAMBDA x : x # <<>>)

IsSpace(c) == c \in {" ", NL}

RECURSIVE lstrip(_)
lstrip(t) == IF t # <<>> /\ IsSpace(t[1]) THEN lstrip(Tail(t)) ELSE t

RECURSIVE rstrip(_)
rstrip(t) ==
    IF t # <<>> /\ IsSpace(t[Len(t)]) THEN rstrip(SubSeq(t, 1, Len(t) - 1)) ELSE t

strip(t) == rstrip(lstrip(t))

RECURSIVE join(_, _)
join(sep, parts) ==
    IF parts = <<>> THEN <<>>
    ELSE IF Len(parts) = 1 THEN parts[1]
    ELSE parts[1] \o sep \o join(sep, Tail(parts))

\* _join_docs: the joined, stripped text as a one-element list, or nothing
\* when it is empty.
join_docs(docs, sep) ==
    LET text == strip(join(sep, docs))
    IN  IF text = <<>> THEN <<>> ELSE <<text>>

SepLenIf(cond, sep) == IF cond THEN Len(sep) ELSE 0

\* The "keep on popping" loop of _merge_splits: returns <<current_doc, total>>.
RECURSIVE PopWhile(_, _, _, _)
PopWhile(current_doc, total, len, sep) ==
    IF \/ total > chunk_overlap
       \/ /\ total + len + SepLenIf(Len(current_doc) > 0, sep) > chunk_size
          /\ total > 0
    THEN PopWhile(Tail(current_doc),
                  total - (Len(current_doc[1]) + SepLenIf(Len(current_doc) > 1, sep)),
                  len, sep)
    ELSE <<current_doc, total>>

\* The loop of _merge_splits from split i on, then the final join.
RECURSIVE MergeFrom(_, _, _, _, _, _)
MergeFrom(splits, i, docs, current_doc, total, sep) ==
    IF i > Len(splits) THEN docs \o join_docs(current_doc, sep)
    ELSE
      LET d == splits[i]
          len == Len(d)
          over == total + len + SepLenIf(Len(current_doc) > 0, sep) > chunk_size
          flush == over /\ Len(current_doc) > 0
          docs1 == IF flush THEN docs \o join_docs(current_doc, sep) ELSE docs
          popped == IF flush THEN PopWhile(current_doc, total, len, sep)
                    ELSE <<current_doc, total>>
          cur == Append(popped[1], d)
      IN  MergeFrom(splits, i + 1, docs1, cur,
                    popped[2] + len + SepLenIf(Len(cur) > 1, sep), sep)

merge_splits(splits, sep) == MergeFrom(splits, 1, <<>>, <<>>, 0, sep)

\* The first separator that is "" or occurs in the text.
PickSeparator(text, seps) ==
    IF \E i \in 1..Len(seps) : seps[i] = <<>> \/ Occurs(text, seps[i])
    THEN CHOOSE i \in 1..Len(seps) :
            /\ seps[i] = <<>> \/ Occurs(text, seps[i])
            /\ \A h \in 1..(i - 1) : ~(seps[h] = <<>> \/ Occurs(text, seps[h]))
    ELSE Len(seps)

RECURSIVE split_text_rec(_, _)
RECURSIVE SplitLoop(_, _, _, _, _)

\* The loop of _split_text over the splits: short splits are gathered and
\* merged, a long one is split again with the remaining separators, or kept
\* as it is when none remains.
SplitLoop(splits, i, good, final, new_separators) ==
    IF i > Len(splits)
    THEN IF good # <<>> THEN final \o merge_splits(good, <<>>) ELSE final
    ELSE LET s == splits[i]
         IN  IF Len(s) < chunk_size
             THEN SplitLoop(splits, i + 1, Append(good, s), final, new_separators)
             ELSE LET flushed == IF good # <<>>
                                 THEN final \o merge_splits(good, <<>>)
                                 ELSE final
                      again == IF new_separators = <<>> THEN <<s>>
                               ELSE split_text_rec(s, new_separators)
                  IN  SplitLoop(splits, i + 1, <<>>, flushed \o again, new_separators)

\* _split_text(text, separators)
split_text_rec(text, seps) ==
    LET k == PickSeparator(text, seps)
        separator == seps[k]
        new_separators == IF separator = <<>> \/ ~Occurs(text, separator)
                          THEN <<>>
                          ELSE SubSeq(seps, k + 1, Len(seps))
    IN  SplitLoop(split_text_with_regex(text, separator), 1, <<>>, <<>>,
                  new_separators)

split_text(text) == split_text_rec(text, default_separators)

\* split_documents: every chunk of every document, in order, with the
\* document's metadata.
RECURSIVE split_documents(_)
split_documents(docs) ==
    IF docs = <<>> THEN <<>>
    ELSE LET texts == split_text(docs[1].page_content)
         IN  [i \in 1..Len(texts) |->
                 [source |-> docs[1].source, page_content |-> texts[i]]]
             \o split_documents(Tail(docs))

(***************************************************************************)
(* initialize_rag: the build steps after loading.                          *)
(***************************************************************************)
\* chunks = text_splitter.split_documents(documents)
Chunk ==
    /\ pc = "Chunking"
    /\ chunks' = split_documents(documents)
    /\ pc' = "Embedding"
    /\ phases' = Append(phases, "Embedding")
    /\ UNCHANGED <<loadVars, embeddings, vector_db, rag_chain, launched, queryVars>>

(***************************************************************************)
(* The splitter on its own: one document of any text up to MaxDocLen.      *)
(***************************************************************************)
MaxDocLen == 5
Alphabet == {"a", "b", " ", NL}
DocTexts == UNION {[1..n -> Alphabet] : n \in 0..MaxDocLen}

InitSplit ==
    /\ pc = "Chunking"
    /\ phases = <<"Idle", "Loading", "Chunking">>
    /\ directory = dir_data
    /\ tree = {<<n_a_txt>>}
    /\ lpc = "done"
    /\ txt_files = {FullPath(<<n_a_txt>>)}
    /\ todo = {}
    /\ \E text \in DocTexts :
          documents = <<[source |-> FullPath(<<n_a_txt>>), page_content |-> text]>>
    /\ errors = <<>>
    /\ reported = [success |-> 1, failed |-> 0]
    /\ NothingBuilt
    /\ NoQueries

NextSplit == Chunk

SpecSplit == InitSplit /\ [][NextSplit]_vars

IsAtomicUnit(text) == Len(text) = 1

HasNoSpace(text) == \A i \in 1..Len(text) : ~IsSpace(text[i])

\* The texts, in order, lie in doc one after the other without a gap: each
\* starts no later than right after the previous one ends, and the last one
\* ends where doc ends.
RECURSIVE CoversFrom(_, _, _, _)
CoversFrom(doc, texts, j, reach) ==
    IF j > Len(texts) THEN reach = Len(doc)
    ELSE \E st \in 1..(reach + 1) :
            /\ st + Len(texts[j]) - 1 <= Len(doc)
            /\ st + Len(texts[j]) - 1 > reach
            /\ SubSeq(doc, st, st + Len(texts[j]) - 1) = texts[j]
            /\ CoversFrom(doc, texts, j + 1, st + Len(texts[j]) - 1)

ChunkTexts == [i \in 1..Len(chunks) |-> chunks[i].page_content]

\* C9: every chunk the splitter produces is at most chunk_size long, unless it
\* is a single atomic unit (one character, the unit of the last separator);
\* and a word longer than chunk_size is not truncated: its chunks cover it
\* from its first character to its last.
C9_ChunkWithinMaxSize ==
    pc = "Embedding" =>
        /\ \A i \in 1..Len(chunks) :
              \/ Len(chunks[i].page_content) <= chunk_size
              \/ IsAtomicUnit(chunks[i].page_content)
        /\ HasNoSpace(documents[1].page_content) =>
              CoversFrom(documents[1].page_content, ChunkTexts, 1, 0)

\* C9 witness: a document that is one word longer than chunk_size has been
\* split into several chunks.
C9_Witness ==
    /\ pc = "Embedding"
    /\ HasNoSpace(documents[1].page_content)
    /\ Len(documents[1].page_content) > chunk_size
    /\ Len(chunks) >= 2

(***************************************************************************)
(* Claims about safe_load_documents, checked under SpecLoad.               *)
(***************************************************************************)
DocSources == {documents[i].source : i \in 1..Len(documents)}
ErrorFiles == {errors[i][1] : i \in 1..Len(errors)}
TimesCounted(f) ==
    Cardinality({i \in 1..Len(documents) : documents[i].source = f})
    + Cardinality({i \in 1..Len(errors) : errors[i][1] = f})

\* C2: a failing file is recorded and skipped and the loop goes on to the
\* remaining candidates; at return every candidate file has been counted
\* exactly once, as a success or as a failure, and the reported success count
\* is the number of candidates minus the reported failures.
C2_SuccessIsTotalMinusFailures ==
    /\ lpc = "loop" =>
          /\ \A f \in txt_files \ todo : TimesCounted(f) = 1
          /\ \A f \in todo : TimesCounted(f) = 0
    /\ lpc = "done" =>
          /\ \A f \in txt_files : TimesCounted(f) = 1
          /\ DocSources \cup ErrorFiles = txt_files
          /\ reported.success = Cardinality(txt_files) - reported.failed
          /\ reported.failed = Len(errors)

\* C2 witness: a run that returned with a failure recorded and other files
\* ingested all the same.
C2_Witness ==
    /\ lpc = "done"
    /\ reported.failed >= 1
    /\ reported.success >= 2
    /\ Cardinality(txt_files) = reported.success + reported.failed

NoDotComponent(f) == \A i \in 1..Len(f) : f[i][1] # "."

\* C10: the files safe_load_documents attempts are exactly the entries under
\* the directory whose name ends in ".txt" and whose path has no component
\* beginning with ".": none with such a component is attempted, and every
\* other one is.
C10_AttemptsExactlyVisibleTxt ==
    lpc = "done" =>
        LET attempted == DocSources \cup ErrorFiles
        IN  /\ \A f \in attempted : NoDotComponent(f)
            /\ \A f \in attempted :
                   \E e \in Entries(tree) :
                      f = FullPath(e) /\ endswith(e[Len(e)], dot_txt)
            /\ \A e \in Entries(tree) :
                   (endswith(e[Len(e)], dot_txt) /\ NoDotComponent(FullPath(e)))
                      => FullPath(e) \in attempted

\* C10 witness: a tree holding a hidden file, a file in a hidden directory
\* and visible files; the visible ones were attempted.
C10_Witness ==
    /\ lpc = "done"
    /\ <<n_hidden_txt>> \in tree
    /\ <<n_git, n_c_txt>> \in tree
    /\ <<n_sub, n_c_txt>> \in tree
    /\ FullPath(<<n_sub, n_c_txt>>) \in DocSources
    /\ FullPath(<<n_git, n_c_txt>>) \notin DocSources \cup ErrorFiles

(***************************************************************************)
(* initialize_rag: embedding, index, chain (lines 374-410).                *)
(***************************************************************************)
Count(text, ch) == Cardinality({i \in 1..Len(text) : text[i] = ch})

\* HuggingFaceEmbeddings: a fixed function from text to a vector of a fixed
\* dimension (here 2: the numbers of "a" and of "b" in the text).
embed_model(text) == <<Count(text, "a"), Count(text, "b")>>

\* The L2 distance of IndexFlatL2 (squared): smaller is more similar.
distance(u, v) == (u[1] - v[1]) * (u[1] - v[1]) + (u[2] - v[2]) * (u[2] - v[2])

\* search_kwargs={"k": 3}
k == 3

Min(a, b) == IF a <= b THEN a ELSE b

\* Mutant of search: the whole index is returned, nearest first, whatever kk.
search_All(db, qvec, kk) ==
    {r \in [1..Len(db) -> 1..Len(db)] :
        /\ \A i, j \in 1..Len(db) : i # j => r[i] # r[j]
        /\ \A i \in 1..(Len(db) - 1) :
              distance(db[r[i]].vec, qvec) <= distance(db[r[i + 1]].vec, qvec)}

\* FAISS similarity search: the positions of the kk nearest entries (all of
\* them when the index holds fewer), nearest first.  Entries at the same
\* distance may come in either order.
search(db, qvec, kk) ==
    {r \in [1..Min(kk, Len(db)) -> 1..Len(db)] :
        /\ \A i, j \in 1..Len(r) : i # j => r[i] # r[j]
        /\ \A i \in 1..(Len(r) - 1) :
              distance(db[r[i]].vec, qvec) <= distance(db[r[i + 1]].vec, qvec)
        /\ \A j \in 1..Len(db) :
              (\A i \in 1..Len(r) : r[i] # j) =>
                 \A i \in 1..Len(r) :
                    distance(db[r[i]].vec, qvec) <= distance(db[j].vec, qvec)}

BuildSteps == {"Loading", "Chunking", "Embedding", "Indexing"}

\* rag_chain = initialize_rag(): the call is entered.
StartBuild ==
    /\ pc = "Idle"
    /\ pc' = "Loading"
    /\ phases' = Append(phases, "Loading")
    /\ UNCHANGED <<loadVars, buildVars, queryVars>>

\* embed_model = HuggingFaceEmbeddings(...); FAISS.from_documents embeds
\* every chunk.
Embed ==
    /\ pc = "Embedding"
    /\ embeddings' = [i \in 1..Len(chunks) |-> embed_model(chunks[i].page_content)]
    /\ pc' = "Indexing"
    /\ phases' = Append(phases, "Indexing")
    /\ UNCHANGED <<loadVars, chunks, vector_db, rag_chain, launched, queryVars>>

\* Mutant of Index: an index over no vectors is built instead of raising.
Index_AllowsEmpty ==
    /\ pc = "Indexing" /\ ~vector_db.built
    /\ vector_db' =
          [built |-> TRUE,
           entries |-> [i \in 1..Len(chunks) |->
                          [doc |-> chunks[i], vec |-> embeddings[i]]]]
    /\ UNCHANGED <<pc, phases>>
    /\ UNCHANGED <<loadVars, chunks, embeddings, rag_chain, launched, queryVars>>

\* FAISS.from_documents builds the index from all the vectors at once; with no
\* vector at all it raises (it reads the dimension off the first one), which
\* initialize_rag turns into exit(1).
Index ==
    /\ pc = "Indexing" /\ ~vector_db.built
    /\ IF embeddings = <<>>
       THEN /\ pc' = "Failed"
            /\ phases' = Append(phases, "Failed")
            /\ UNCHANGED vector_db
       ELSE /\ vector_db' =
                  [built |-> TRUE,
                   entries |-> [i \in 1..Len(chunks) |->
                                  [doc |-> chunks[i], vec |-> embeddings[i]]]]
            /\ UNCHANGED <<pc, phases>>
    /\ UNCHANGED <<loadVars, chunks, embeddings, rag_chain, launched, queryVars>>

\* retriever, prompt and RetrievalQA chain are made and returned; the global
\* rag_chain is assigned.
MakeChain ==
    /\ pc = "Indexing" /\ vector_db.built
    /\ rag_chain' = "DeepSeekRAG"
    /\ pc' = "Ready"
    /\ phases' = Append(phases, "Ready")
    /\ UNCHANGED <<loadVars, chunks, embeddings, vector_db, launched, queryVars>>

\* Mutant of BuildFails: the failed step is passed over and the pipeline is
\* taken for usable.
BuildFails_Degraded ==
    /\ pc \in BuildSteps
    /\ pc' = "Ready"
    /\ phases' = Append(phases, "Ready")
    /\ rag_chain' = "DeepSeekRAG"
    /\ UNCHANGED <<loadVars, chunks, embeddings, vector_db, launched, queryVars>>

\* Any exception inside initialize_rag's try: "Initialization failed" is
\* printed and exit(1) ends the process; rag_chain is never assigned.
BuildFails ==
    /\ pc \in BuildSteps
    /\ pc' = "Failed"
    /\ phases' = Append(phases, "Failed")
    /\ UNCHANGED <<loadVars, buildVars, queryVars>>

\* Mutant of Launch: the interface is started without waiting for the build.
Launch_Early ==
    /\ pc # "Failed"
    /\ ~launched
    /\ launched' = TRUE
    /\ UNCHANGED <<pc, phases, loadVars, chunks, embeddings, vector_db, rag_chain,
                   queryVars>>

\* gr.Interface(fn=ask, ...).launch(): the cell runs after the cell that
\* assigned rag_chain.
Launch ==
    /\ pc = "Ready" /\ rag_chain # None
    /\ ~launched
    /\ launched' = TRUE
    /\ UNCHANGED <<pc, phases, loadVars, chunks, embeddings, vector_db, rag_chain,
                   queryVars>>

(***************************************************************************)
(* DeepSeekRunnable.invoke (lines 119-134).                                *)
(***************************************************************************)
ErrorPrefix == <<"E", "r", "r", "o", "r", ":", " ">>

Returned(text) == [raised |-> FALSE, text |-> text]
Raised(msg) == [raised |-> TRUE, text |-> msg]

\* repr() of a Python str without quotes in it: quoted, line breaks escaped.
RECURSIVE py_escape(_)
py_escape(t) ==
    IF t = <<>> THEN <<>>
    ELSE (IF t[1] = NL THEN <<"\\", "n">> ELSE <<t[1]>>) \o py_escape(Tail(t))

py_repr(t) == <<"'">> \o py_escape(t) \o <<"'">>

\* str(input) for an input that is not a dict: a str is itself, the prompt
\* value the chain passes prints as text='...'.
py_str(input) ==
    IF input.kind = "str" THEN input.text
    ELSE <<"t", "e", "x", "t", "=">> \o py_repr(input.text)

\* query = input.get("query") if isinstance(input, dict) else str(input)
to_query(input) ==
    IF input.kind = "dict"
    THEN (IF input.has_query THEN input.text ELSE None)
    ELSE py_str(input)

\* The request of client.chat.completions.create.
request(input) ==
    [model |-> "deepseek-chat",
     messages |-> <<[role |-> "user", content |-> to_query(input)]>>,
     temperature |-> "0.3"]

msg_timeout == <<"t", "i", "m", "e">>
msg_auth == <<"4", "0", "1">>
msg_backend == <<"5", "0", "0">>
msg_index == <<"l", "i", "s", "t">>
txt_answer == <<"L", "A">>
txt_other == <<"n", "o">>

\* What the remote call can do: raise (transport, authentication, backend
\* error), or answer with a list of choices, which may be empty.
Failures ==
    {[kind |-> "exception", msg |-> m] : m \in {msg_timeout, msg_auth, msg_backend, <<>>}}
Responses ==
    {[kind |-> "response", choices |-> ch] :
        ch \in {<<>>, <<txt_answer>>, <<txt_answer, txt_other>>, <<ErrorPrefix \o txt_other>>}}
Outcomes == Failures \cup Responses

\* The backend rejects a request whose content is null.
OutcomesFor(input) ==
    IF input.kind = "dict" /\ ~input.has_query THEN Failures ELSE Outcomes

\* The body of the try: the call, then response.choices[0].message.content.
invoke_try(input, outcome) ==
    IF outcome.kind = "exception" THEN Raised(outcome.msg)
    ELSE IF outcome.choices = <<>> THEN Raised(msg_index)
    ELSE Returned(outcome.choices[1])

\* Mutant of invoke: no except clause.
invoke_NoExcept(input, outcome) == invoke_try(input, outcome)

\* invoke: except Exception as e: return f"Error: {str(e)}"
invoke(input, outcome) ==
    LET r == invoke_try(input, outcome)
    IN  IF r.raised THEN Returned(ErrorPrefix \o r.text) ELSE r

(***************************************************************************)
(* The RetrievalQA "stuff" chain and ask (lines 381-403, 450-455).         *)
(***************************************************************************)
\* The template; the instruction sentences before "Context:" are left out.
template_head == <<"C", "o", "n", "t", "e", "x", "t", ":", " ">>
template_mid == <<NL, "Q", "u", "e", "s", "t", "i", "o", "n", ":", " ">>
template_tail == <<NL, "A", "n", "s", "w", "e", "r", ":">>

PageContents(docs) == [i \in 1..Len(docs) |-> docs[i].page_content]

\* Mutant of stuff_context: the lowest-ranked chunk is dropped when there is
\* more than one.
stuff_context_DropLast(docs) ==
    join(<<NL, NL>>,
         PageContents(IF Len(docs) > 1 THEN SubSeq(docs, 1, Len(docs) - 1) ELSE docs))

\* chain_type="stuff": the retrieved chunks joined by a blank line.
stuff_context(docs) == join(<<NL, NL>>, PageContents(docs))

\* prompt.format(context=..., question=...)
format_prompt(context, question) ==
    template_head \o context \o template_mid \o question \o template_tail

\* Mutant of Retrieve: the retriever adds the question's vector to the index.
Retrieve_AddsQuery(c) ==
    /\ q[c].qpc = "retrieve"
    /\ \E r \in search(vector_db.entries, embed_model(q[c].question), k) :
          /\ q' = [q EXCEPT ![c].qpc = "assemble",
                            ![c].docs = [i \in 1..Len(r) |-> vector_db.entries[r[i]].doc]]
          /\ vector_db' =
                [vector_db EXCEPT !.entries =
                    Append(@, [doc |-> [source |-> <<>>, page_content |-> q[c].question],
                               vec |-> embed_model(q[c].question)])]
    /\ UNCHANGED <<pc, phases, loadVars, chunks, embeddings, rag_chain, launched, call>>

\* Mutant of ask_except: the exception is raised on to the caller.
ask_except_Reraise(msg) == Raised(msg)

\* ask: except Exception as e: return f"Error: {str(e)}"
ask_except(msg) == Returned(ErrorPrefix \o msg)

\* The longest question the model asks; ask itself accepts any length.
MaxQuestionLen == 18

Questions == { <<"b", "?">>, [i \in 1..MaxQuestionLen |-> "a"] }

msg_step == <<"b", "a", "d">>

\* A step of the chain raises: ask's except turns it into the answer.
Fault(c, step) ==
    q' = [q EXCEPT ![c].qpc = "done", ![c].failed = step,
                   ![c].answer = ask_except(msg_step)]

\* A request reaches ask(question).
Ask(c, question) ==
    /\ launched
    /\ q[c].qpc \in {"idle", "done"}
    /\ q' = [q EXCEPT ![c] = [IdleClient EXCEPT !.qpc = "lookup", !.question = question]]
    /\ UNCHANGED <<pc, phases, loadVars, buildVars, call>>

\* rag_chain.invoke: the global is looked up; on None the attribute access
\* raises, which ask catches.
Lookup(c) ==
    /\ q[c].qpc = "lookup"
    /\ IF rag_chain = None THEN Fault(c, "lookup")
       ELSE q' = [q EXCEPT ![c].qpc = "retrieve"]
    /\ UNCHANGED <<pc, phases, loadVars, buildVars, call>>

\* The retriever: embed the question, then the k nearest chunks.
Retrieve(c) ==
    /\ q[c].qpc = "retrieve"
    /\ \/ \E r \in search(vector_db.entries, embed_model(q[c].question), k) :
            q' = [q EXCEPT ![c].qpc = "assemble",
                           ![c].docs = [i \in 1..Len(r) |-> vector_db.entries[r[i]].doc]]
       \/ Fault(c, "embed")
       \/ Fault(c, "retrieve")
    /\ UNCHANGED <<pc, phases, loadVars, buildVars, call>>

\* The stuff chain: context, then the prompt.
Assemble(c) ==
    /\ q[c].qpc = "assemble"
    /\ \/ q' = [q EXCEPT ![c].qpc = "generate",
                         ![c].prompt = format_prompt(stuff_context(q[c].docs),
                                                     q[c].question)]
       \/ Fault(c, "assemble")
    /\ UNCHANGED <<pc, phases, loadVars, buildVars, call>>

PromptValue(text) == [kind |-> "prompt_value", has_query |-> FALSE, text |-> text]

\* The chain calls DeepSeekRunnable.invoke with the prompt value.
Generate(c) ==
    /\ q[c].qpc = "generate"
    /\ \E outcome \in OutcomesFor(PromptValue(q[c].prompt)) :
          q' = [q EXCEPT ![c].qpc = "extract",
                         ![c].sent = request(PromptValue(q[c].prompt)),
                         ![c].failed = IF outcome \in Failures \/ outcome.choices = <<>>
                                       THEN "generate" ELSE "none",
                         ![c].result = invoke(PromptValue(q[c].prompt), outcome)]
    /\ UNCHANGED <<pc, phases, loadVars, buildVars, call>>

\* The chain's output is made; ask returns response['result'].
Extract(c) ==
    /\ q[c].qpc = "extract"
    /\ \/ q' = [q EXCEPT ![c].qpc = "done",
                         ![c].answer = IF q[c].result.raised
                                       THEN ask_except(q[c].result.text)
                                       ELSE q[c].result]
       \/ Fault(c, "extract")
    /\ UNCHANGED <<pc, phases, loadVars, buildVars, call>>

MainTrees ==
    { {}, {<<n_a_txt>>}, {<<n_a_txt>>, <<n_hidden_txt>>}, {<<n_a_txt>>, <<n_sub, n_c_txt>>} }

Init ==
    /\ pc = "Idle"
    /\ phases = <<"Idle">>
    /\ directory = dir_data
    /\ tree \in MainTrees
    /\ lpc = "list"
    /\ txt_files = {}
    /\ todo = {}
    /\ documents = <<>>
    /\ errors = <<>>
    /\ reported = None
    /\ NothingBuilt
    /\ NoQueries

Next ==
    \/ StartBuild
    \/ ListFiles
    \/ LoadFile
    \/ Report
    \/ Chunk
    \/ Embed
    \/ Index
    \/ MakeChain
    \/ BuildFails
    \/ Launch
    \/ \E c \in Clients, question \in Questions : Ask(c, question)
    \/ \E c \in Clients : Lookup(c)
    \/ \E c \in Clients : Retrieve(c)
    \/ \E c \in Clients : Assemble(c)
    \/ \E c \in Clients : Generate(c)
    \/ \E c \in Clients : Extract(c)

Spec == Init /\ [][Next]_vars

(***************************************************************************)
(* DeepSeekRunnable.invoke called on its own, with any kind of input.      *)
(***************************************************************************)
InputTexts == { <<>>, <<"a">>, <<"Q", NL>>, <<"b", "b">>, ErrorPrefix }

InvokeInputs ==
    {[kind |-> kd, has_query |-> (kd = "dict"), text |-> t] :
        kd \in {"dict", "str", "prompt_value"}, t \in InputTexts}
    \cup {[kind |-> "dict", has_query |-> FALSE, text |-> <<>>]}

InitInvoke ==
    /\ pc = "Idle"
    /\ phases = <<"Idle">>
    /\ directory = dir_data
    /\ tree = {}
    /\ lpc = "list"
    /\ txt_files = {}
    /\ todo = {}
    /\ documents = <<>>
    /\ errors = <<>>
    /\ reported = None
    /\ NothingBuilt
    /\ q = [c \in Clients |-> IdleClient]
    /\ \E input \in InvokeInputs : call = [kind |-> "pending", input |-> input]

\* One call of DeepSeekRunnable().invoke(input).
Invoke ==
    /\ call.kind = "pending"
    /\ \E outcome \in OutcomesFor(call.input) :
          call' = [kind |-> "returned", input |-> call.input, outcome |-> outcome,
                   sent |-> request(call.input),
                   result |-> invoke(call.input, outcome)]
    /\ UNCHANGED <<pc, phases, loadVars, buildVars, q>>

NextInvoke == Invoke

SpecInvoke == InitInvoke /\ [][NextInvoke]_vars

(***************************************************************************)
(* Claims about DeepSeekRunnable.invoke, checked under SpecInvoke.         *)
(***************************************************************************)
CallFailed(outcome) == outcome.kind = "exception" \/ outcome.choices = <<>>

\* C1: whatever the input and however the remote call fails (an exception of
\* the transport, the authentication or the backend, or a response without
\* choices), invoke raises nothing and returns a text that begins with
\* "Error: "; when the call succeeds it returns the first choice's content.
C1_InvokeNeverRaises ==
    call.kind = "returned" =>
        /\ ~call.result.raised
        /\ CallFailed(call.outcome) =>
              /\ Len(call.result.text) >= 7
              /\ SubSeq(call.result.text, 1, 7) = <<"E", "r", "r", "o", "r", ":", " ">>
        /\ ~CallFailed(call.outcome) => call.result.text = call.outcome.choices[1]

\* C1 witness: a call whose transport failed has returned an "Error: " text.
C1_Witness ==
    /\ call.kind = "returned"
    /\ call.outcome.kind = "exception"
    /\ call.outcome.msg = msg_timeout
    /\ call.result = [raised |-> FALSE, text |-> ErrorPrefix \o msg_timeout]

(***************************************************************************)
(* Claims about the pipeline, checked under Spec.                          *)
(***************************************************************************)
BuildOrder == <<"Idle", "Loading", "Chunking", "Embedding", "Indexing", "Ready">>

IsPrefix(s, t) == Len(s) <= Len(t) /\ SubSeq(t, 1, Len(s)) = s

C5_AskReturnsErrorText ==
    \A c \in Clients :
        q[c].qpc = "done" =>
            /\ ~q[c].answer.raised
            /\ q[c].failed # "none" =>
                  /\ Len(q[c].answer.text) >= 7
                  /\ SubSeq(q[c].answer.text, 1, 7) = <<"E", "r", "r", "o", "r", ":", " ">>

\* C5 witness: one call failed at retrieval and one at generation, and both
\* returned an error text.
C5_Witness ==
    /\ q[1].qpc = "done" /\ q[1].failed = "retrieve"
    /\ q[2].qpc = "done" /\ q[2].failed = "generate"
    /\ q[1].answer = [raised |-> FALSE, text |-> ErrorPrefix \o msg_step]
    /\ q[2].answer = [raised |-> FALSE, text |-> ErrorPrefix \o msg_auth]

\* C6: once the pipeline is Ready no step changes it: it stays Ready, and
\* the index entries and rag_chain stay what the build produced, whatever ask
\* calls run, fail or interleave.
C6_QueriesLeaveIndexAlone ==
    [][pc = "Ready" =>
          /\ pc' = "Ready"
          /\ vector_db' = vector_db
          /\ chunks' = chunks
          /\ embeddings' = embeddings
          /\ rag_chain' = rag_chain]_vars

\* C6 witness: two interleaved calls, one failed and one answered, with the
\* index still the one the build made.
C6_Witness ==
    /\ pc = "Ready"
    /\ q[1].qpc = "done" /\ q[1].failed = "generate"
    /\ q[2].qpc = "extract" /\ q[2].failed = "none"
    /\ vector_db.entries =
          [i \in 1..Len(chunks) |->
              [doc |-> chunks[i], vec |-> embed_model(chunks[i].page_content)]]

Retrieved(c) == q[c].qpc \in {"assemble", "generate", "extract"}

Similarity(c, i) ==
    0 - distance(embed_model(q[c].docs[i].page_content), embed_model(q[c].question))

\* C7: a search returns at most min(k, index size) results, in order of
\* non-increasing similarity; the retriever's k is 3, so at most 3 chunks go
\* on to generation.
C7_SearchAtMostKSorted ==
    \A c \in Clients :
        Retrieved(c) =>
            /\ Len(q[c].docs) <= 3
            /\ Len(q[c].docs) <= Len(vector_db.entries)
            /\ \A i \in 1..(Len(q[c].docs) - 1) : Similarity(c, i) >= Similarity(c, i + 1)

\* C7 witness: an index of more than 3 entries, of which 3 were returned, not
\* all equally similar.
C7_Witness ==
    \E c \in Clients :
        /\ Retrieved(c)
        /\ Len(vector_db.entries) > 3
        /\ Len(q[c].docs) = 3
        /\ Similarity(c, 1) > Similarity(c, 3)

\* An input limit of the backend, in characters.  The source names none; this
\* one leaves room for the template, k chunks of full size and a short
\* question.
MaxPromptSize ==
    Len(format_prompt(<<>>, <<>>)) + k * chunk_size + 2 * (k - 1) + 2

Assembled(c) == q[c].qpc \in {"generate", "extract"}

\* C8 as stated: the assembled prompt never exceeds the maximum prompt size.
C8_PromptWithinMaxSize ==
    \A c \in Clients : Assembled(c) => Len(q[c].prompt) <= MaxPromptSize

\* Where chunk i starts inside the prompt when every chunk is there whole.
RECURSIVE ChunkStart(_, _)
ChunkStart(docs, i) ==
    IF i = 1 THEN Len(template_head) + 1
    ELSE ChunkStart(docs, i - 1) + Len(docs[i - 1].page_content) + 2

RECURSIVE TotalLen(_)
TotalLen(docs) ==
    IF docs = <<>> THEN 0 ELSE Len(docs[1].page_content) + TotalLen(Tail(docs))

\* C8 as amended: the prompt holds every retrieved chunk (at most 3), whole
\* and in rank order, a blank line between them, then the question; nothing
\* is dropped or cut, and the prompt is as long as the template, the question,
\* the chunks and the separators together, whatever that comes to.
C8_PromptHoldsEveryChunkWhole ==
    \A c \in Clients :
        Assembled(c) =>
            LET docs == q[c].docs
                n == Len(docs)
            IN  /\ n <= 3
                /\ \A i \in 1..n :
                      SubSeq(q[c].prompt, ChunkStart(docs, i),
                             ChunkStart(docs, i) + Len(docs[i].page_content) - 1)
                         = docs[i].page_content
                /\ Len(q[c].prompt) =
                      Len(template_head) + Len(template_mid) + Len(template_tail)
                      + Len(q[c].question) + TotalLen(docs)
                      + (IF n > 0 THEN 2 * (n - 1) ELSE 0)
                /\ endswith(q[c].prompt, q[c].question \o template_tail)

\* C8 witness: a prompt built from 3 chunks that is longer than the limit.
C8_Witness ==
    \E c \in Clients :
        /\ Assembled(c)
        /\ Len(q[c].docs) = 3
        /\ Len(q[c].prompt) > MaxPromptSize

Requested(c) == q[c].qpc = "extract"

\* C11: every request invoke issues carries exactly one message, of role
\* "user", whose content is the current prompt text, with the model
\* "deepseek-chat" and temperature 0.3; and two calls with the same prompt
\* issue the same request, whatever calls came before them.
C11_RequestCarriesPrompt ==
    /\ \A c \in Clients :
          Requested(c) =>
              /\ Len(q[c].sent.messages) = 1
              /\ q[c].sent.messages[1].role = "user"
              /\ q[c].sent.messages[1].content = q[c].prompt
              /\ q[c].sent.model = "deepseek-chat"
              /\ q[c].sent.temperature = "0.3"
    /\ \A c, d \in Clients :
          (Requested(c) /\ Requested(d) /\ q[c].prompt = q[d].prompt)
              => q[c].sent = q[d].sent

NothingToIndex == lpc = "done" /\ documents = <<>>

====
